---- MODULE Spec2Model ----
(***************************************************************************)
(* Model of the go-app demonstration service (src/app/main.go, the last    *)
(* version of the file) and of the nginx entrypoint script                 *)
(* (src/unnamed/part_000).                                                 *)
(*                                                                         *)
(* Goroutines: the HTTP handler goroutines (one per request in flight),    *)
(* the metric collection callback of active.connections, the background    *)
(* connection simulator and the fan-speed producer.  Every statement that  *)
(* touches shared state (activeConnections, activeConnectionsMutex,        *)
(* fanSpeedSubsciption) is a step of its own; statements that touch only   *)
(* locals are folded into the neighbouring step.                           *)
(***************************************************************************)
EXTENDS Integers, Sequences, FiniteSets, TLC

VARIABLES
    activeConnections,       \* main.go:413  int64 counter
    activeConnectionsMutex,  \* main.go:414  TRUE when the sync.Mutex is locked
    pc,                      \* handler goroutine -> position in its handler
    route,                   \* handler goroutine -> route being served
    span,                    \* handler goroutine -> tracer.Start was called
    status,                  \* handler goroutine -> status written (0: none yet)
    connections,             \* handler goroutine -> local `connections`
    fanSpeed,                \* handler goroutine -> local `fanSpeed`
    branch,                  \* handler goroutine -> select branch taken
    cbPc,                    \* active.connections callback position
    cbConnections,           \* local `connections` of the callback
    simPc,                   \* background simulator position
    change,                  \* local `change` of the simulator
    fanSpeedSubsciption,     \* main.go:407  buffered values of the channel
    chanClosed,              \* the channel was closed
    prodPc,                  \* fan-speed producer position
    idx,                     \* loop variable of the producer
    prodSpeed,               \* local `fanSpeed` of the producer
    received,                \* number of values handlers took off the channel
    shPc,                    \* entrypoint script position
    env,                     \* value of OTEL_EXPORTER_ENDPOINT in the shell
    env0,                    \* value of OTEL_EXPORTER_ENDPOINT at container start
    template,                \* /etc/nginx/nginx.conf.template, as tokens
    conf,                    \* /etc/nginx/nginx.conf, as tokens
    currentMemoryUsage,      \* main.go:411  float64, written by the memory.usage callback
    memObserved,             \* value last passed to o.Observe by that callback (-1: none)
    memCbPc,                 \* memory.usage callback position
    memBody,                 \* handler goroutine -> current_memory_bytes it read (-1: none)
    otlpEndpoint,            \* OTLP_ENDPOINT in main's environment ("unset": not set)
    mainPc,                  \* main's position
    mainPhase,               \* "call": about to make the call at mainPc; "check": at its if err != nil
    err,                     \* main's err
    exp,                     \* main's exp
    metricExp,               \* main's metricExp
    instruments,             \* names of the metric instruments created
    goroutines,              \* background goroutines started by main
    registered,              \* route patterns registered on the router
    listening,               \* the server listens on :8080
    start0,                  \* value of the counter when a burst of calls begins
    reported                 \* handler goroutine -> active_connections of its response (-1: none)

connVars == <<activeConnections, activeConnectionsMutex, connections,
              cbPc, cbConnections, simPc, change>>
handlerVars == <<pc, route, span, status, fanSpeed, branch>>
fanVars == <<fanSpeedSubsciption, chanClosed, prodPc, idx, prodSpeed, received>>
shVars == <<shPc, env, env0, template, conf>>
memVars == <<currentMemoryUsage, memObserved, memCbPc, memBody>>
mainVars == <<otlpEndpoint, mainPc, mainPhase, err, exp, metricExp,
              instruments, goroutines, registered, listening>>
burstVars == <<start0, reported>>
moreVars == <<memVars, mainVars, burstVars>>
vars == <<connVars, handlerVars, fanVars, shVars, moreVars>>

(***************************************************************************)
(* Bounds of the model.                                                    *)
(***************************************************************************)
NumHandlers == 2        \* handler goroutines that can be in flight at once
MaxConnections == 103   \* requests to /connection/open are not issued beyond it
MaxTemplateLen == 3     \* tokens in the nginx config template

Handlers == 1..NumHandlers

Min(a, b) == IF a < b THEN a ELSE b
Max(a, b) == IF a > b THEN a ELSE b

(***************************************************************************)
(* Program constants.                                                      *)
(***************************************************************************)
MaxActive == 100             \* upper clamp of the simulator
ChangeSpan == 16             \* rand.Intn(16)
ChangeOffset == 5            \* ... - 5
ProducerIterations == 5      \* for idx := 0; idx < 5; idx++
ChanCap == 1                 \* make(chan int64, 1)
FanSpeedBase == 1500         \* 1500 + rand.Intn(1000)
FanSpeedSpread == 1000
MemBase == 104857600         \* 100*1024*1024
MemSpread == 419430400       \* rand.Intn(400*1024*1024)
StatusOK == 200              \* http.StatusOK
StatusInternalServerError == 500

(***************************************************************************)
(* The route table and what each handler function does first.              *)
(***************************************************************************)
RouteTable ==
    [r \in {"/healthz", "/", "/hello", "/users/{id}", "/error", "/items/add",
            "/items/remove", "/cpu/fanspeed", "/external-api", "/metrics/memory",
            "/metrics/connections", "/connection/open", "/connection/close"} |->
        CASE r = "/healthz" -> "getHealtz"
          [] r = "/" -> "getRoot"
          [] r = "/hello" -> "getHello"
          [] r = "/users/{id}" -> "getUserByID"
          [] r = "/error" -> "getError"
          [] r = "/items/add" -> "addItem"
          [] r = "/items/remove" -> "removeItem"
          [] r = "/cpu/fanspeed" -> "getCPUFanSpeedHandler"
          [] r = "/external-api" -> "callExternalAPI"
          [] r = "/metrics/memory" -> "getMemoryMetrics"
          [] r = "/metrics/connections" -> "getConnectionMetrics"
          [] r = "/connection/open" -> "simulateConnect"
          [] r = "/connection/close" -> "simulateDisconnect"]

Routes == DOMAIN RouteTable

\* getHello without its span.
CallsTracerStartNoHello ==
    {"getError", "addItem", "removeItem", "getCPUFanSpeedHandler",
     "callExternalAPI", "getMemoryMetrics", "getConnectionMetrics",
     "simulateConnect", "simulateDisconnect"}

\* The handler functions whose body begins with tracer.Start.
CallsTracerStart ==
    {"getHello", "getError", "addItem", "removeItem", "getCPUFanSpeedHandler",
     "callExternalAPI", "getMemoryMetrics", "getConnectionMetrics",
     "simulateConnect", "simulateDisconnect"}

\* The metric instruments main creates, in the order it creates them.
InstrumentNames ==
    {"api.counter", "items.counter", "cpu.fan.speed", "task.duration",
     "memory.usage", "active.connections"}

\* The handler functions that take activeConnectionsMutex.
LockingHandlers == {"getConnectionMetrics", "simulateConnect", "simulateDisconnect"}

ConnRoutes == {r \in Routes : RouteTable[r] \in LockingHandlers}

\* The status a handler writes: w.WriteHeader, or the implicit 200 of w.Write.
StatusOf(h) == IF h = "getError" THEN StatusInternalServerError ELSE StatusOK

\* Position after tracer.Start (or at entry, for a handler without it).
AfterEntry(h) ==
    IF h \in LockingHandlers THEN "lock"
    ELSE IF h = "getCPUFanSpeedHandler" THEN "select"
    ELSE "write"

(***************************************************************************)
(* sync.Mutex.                                                             *)
(***************************************************************************)
\* A lock that does not wait for the holder.
LockNoWait == activeConnectionsMutex' = TRUE

Lock ==
    /\ ~activeConnectionsMutex
    /\ activeConnectionsMutex' = TRUE

\* A path that leaves the critical section without releasing.
UnlockLeak == activeConnectionsMutex' = activeConnectionsMutex

Unlock == activeConnectionsMutex' = FALSE

(***************************************************************************)
(* The statements of the three critical sections that write the counter.   *)
(***************************************************************************)
\* activeConnections++
ConnectStep(n) == n + 1

\* activeConnections-- without the guard.
DisconnectStepUnguarded(n) == n - 1

\* if activeConnections > 0 { activeConnections-- }
DisconnectStep(n) == IF n > 0 THEN n - 1 ELSE n

\* The simulator's step without the upper clamp.
SimStepNoUpper(n, c) == IF n + c < 0 THEN 0 ELSE n + c

\* activeConnections += change, then the two clamps
SimStep(n, c) ==
    LET added == n + c
        lo == IF added < 0 THEN 0 ELSE added
    IN  IF lo > MaxActive THEN MaxActive ELSE lo

\* change := int64(rand.Intn(16) - 5)
Changes == {i - ChangeOffset : i \in 0..(ChangeSpan - 1)}

(***************************************************************************)
(* Initial state: main has reached http.ListenAndServe.                    *)
(***************************************************************************)
\* The package variables and the goroutines' positions, the counter at n.
PackageInit(n) ==
    /\ activeConnections = n
    /\ activeConnectionsMutex = FALSE
    /\ pc = [p \in Handlers |-> "idle"]
    /\ route = [p \in Handlers |-> ""]
    /\ span = [p \in Handlers |-> FALSE]
    /\ status = [p \in Handlers |-> 0]
    /\ connections = [p \in Handlers |-> 0]
    /\ fanSpeed = [p \in Handlers |-> 0]
    /\ branch = [p \in Handlers |-> ""]
    /\ cbPc = "idle"
    /\ cbConnections = 0
    /\ simPc = "sleep"
    /\ change = 0
    /\ fanSpeedSubsciption = <<>>
    /\ chanClosed = FALSE
    /\ prodPc = "loop"
    /\ idx = 0
    /\ prodSpeed = 0
    /\ received = 0
    /\ currentMemoryUsage = 0
    /\ memObserved = -1
    /\ memCbPc = "idle"
    /\ memBody = [p \in Handlers |-> -1]

\* main after it has run through to http.ListenAndServe.
MainServing ==
    /\ otlpEndpoint = "otel-tui:4317"
    /\ mainPc = "serving"
    /\ mainPhase = "call"
    /\ err = "nil"
    /\ exp = "exporter"
    /\ metricExp = "exporter"
    /\ instruments = InstrumentNames
    /\ goroutines = {"goFanSpeed", "goSimulator"}
    /\ registered = Routes
    /\ listening = TRUE

AppInitAt(n) ==
    /\ PackageInit(n)
    /\ MainServing
    /\ start0 = n
    /\ reported = [p \in Handlers |-> -1]

AppInit == AppInitAt(0)

ShOff ==
    /\ shPc = "off"
    /\ env = "unset"
    /\ env0 = "unset"
    /\ template = <<>>
    /\ conf = <<>>

Init == AppInit /\ ShOff

(***************************************************************************)
(* Handler goroutines.                                                     *)
(***************************************************************************)
\* Calls of simulateConnect that have not incremented yet.
PendingOpens ==
    Cardinality({q \in Handlers : /\ route[q] = "/connection/open"
                                  /\ pc[q] \in {"lock", "cs"}})

\* The router invokes the handler of route r on goroutine p; the handler's first
\* statement is tracer.Start, where it has one.
Request(p, r) ==
    /\ pc[p] = "idle"
    /\ r = "/connection/open" => activeConnections + PendingOpens < MaxConnections
    /\ route' = [route EXCEPT ![p] = r]
    /\ span' = [span EXCEPT ![p] = RouteTable[r] \in CallsTracerStart]
    /\ pc' = [pc EXCEPT ![p] = AfterEntry(RouteTable[r])]
    /\ UNCHANGED <<status, fanSpeed, branch, connVars, fanVars, shVars, moreVars>>

\* activeConnectionsMutex.Lock()
HandlerLock(p) ==
    /\ pc[p] = "lock"
    /\ Lock
    /\ pc' = [pc EXCEPT ![p] = IF RouteTable[route[p]] = "getConnectionMetrics"
                                THEN "read" ELSE "cs"]
    /\ UNCHANGED <<activeConnections, connections, cbPc, cbConnections, simPc, change>>
    /\ UNCHANGED <<route, span, status, fanSpeed, branch, fanVars, shVars, moreVars>>

\* The statement of simulateConnect and simulateDisconnect that writes the
\* counter; getConnectionMetrics has none.
HandlerCritical(p) ==
    /\ pc[p] = "cs"
    /\ activeConnections' =
         IF RouteTable[route[p]] = "simulateConnect" THEN ConnectStep(activeConnections)
         ELSE IF RouteTable[route[p]] = "simulateDisconnect"
              THEN DisconnectStep(activeConnections)
         ELSE activeConnections
    /\ pc' = [pc EXCEPT ![p] = "read"]
    /\ UNCHANGED <<activeConnectionsMutex, connections, cbPc, cbConnections, simPc, change>>
    /\ UNCHANGED <<route, span, status, fanSpeed, branch, fanVars, shVars, moreVars>>

\* connections := activeConnections
HandlerRead(p) ==
    /\ pc[p] = "read"
    /\ connections' = [connections EXCEPT ![p] = activeConnections]
    /\ pc' = [pc EXCEPT ![p] = "unlock"]
    /\ UNCHANGED <<activeConnections, activeConnectionsMutex, cbPc, cbConnections,
                   simPc, change>>
    /\ UNCHANGED <<route, span, status, fanSpeed, branch, fanVars, shVars, moreVars>>

\* activeConnectionsMutex.Unlock(), then the log line and the response, which use
\* the local only.
UnlockAndRespond(p) ==
    /\ pc[p] = "unlock"
    /\ Unlock
    /\ status' = [status EXCEPT ![p] = StatusOf(RouteTable[route[p]])]
    /\ connections' = [connections EXCEPT ![p] = 0]
    /\ pc' = [pc EXCEPT ![p] = "done"]
    /\ UNCHANGED <<activeConnections, cbPc, cbConnections, simPc, change>>
    /\ UNCHANGED <<route, span, fanSpeed, branch, fanVars, shVars, memVars, mainVars, start0>>

\* The unlock and the response, the body of the response not kept.
HandlerUnlock(p) ==
    /\ UnlockAndRespond(p)
    /\ UNCHANGED reported

\* The unlock and the response, with the active_connections of the body kept.
HandlerUnlockObserved(p) ==
    /\ UnlockAndRespond(p)
    /\ reported' = [reported EXCEPT ![p] = connections[p]]

\* The handler returns: the deferred span.End() runs.
Return(p) ==
    /\ pc[p] = "done"
    /\ pc' = [pc EXCEPT ![p] = "idle"]
    /\ route' = [route EXCEPT ![p] = ""]
    /\ span' = [span EXCEPT ![p] = FALSE]
    /\ status' = [status EXCEPT ![p] = 0]
    /\ fanSpeed' = [fanSpeed EXCEPT ![p] = 0]
    /\ branch' = [branch EXCEPT ![p] = ""]
    /\ memBody' = [memBody EXCEPT ![p] = -1]
    /\ UNCHANGED <<connVars, fanVars, shVars, currentMemoryUsage, memObserved, memCbPc,
                   mainVars, burstVars>>

(***************************************************************************)
(* The callback of the active.connections observable.                      *)
(***************************************************************************)
\* The periodic reader starts a collection.
CollectStart ==
    /\ cbPc = "idle"
    /\ cbPc' = "lock"
    /\ UNCHANGED <<activeConnections, activeConnectionsMutex, connections,
                   cbConnections, simPc, change, handlerVars, fanVars, shVars, moreVars>>

CollectLock ==
    /\ cbPc = "lock"
    /\ Lock
    /\ cbPc' = "cs"
    /\ UNCHANGED <<activeConnections, connections, cbConnections, simPc, change,
                   handlerVars, fanVars, shVars, moreVars>>

\* connections := activeConnections
CollectRead ==
    /\ cbPc = "cs"
    /\ cbConnections' = activeConnections
    /\ cbPc' = "unlock"
    /\ UNCHANGED <<activeConnections, activeConnectionsMutex, connections, simPc,
                   change, handlerVars, fanVars, shVars, moreVars>>

\* Unlock, then o.Observe(connections) and the log line.
CollectUnlock ==
    /\ cbPc = "unlock"
    /\ Unlock
    /\ cbConnections' = 0
    /\ cbPc' = "idle"
    /\ UNCHANGED <<activeConnections, connections, simPc, change,
                   handlerVars, fanVars, shVars, moreVars>>

(***************************************************************************)
(* The background connection simulator.                                    *)
(***************************************************************************)
\* time.Sleep returns.
SimWake ==
    /\ simPc = "sleep"
    /\ simPc' = "lock"
    /\ UNCHANGED <<activeConnections, activeConnectionsMutex, connections, cbPc,
                   cbConnections, change, handlerVars, fanVars, shVars, moreVars>>

SimLock ==
    /\ simPc = "lock"
    /\ Lock
    /\ simPc' = "cs"
    /\ UNCHANGED <<activeConnections, connections, cbPc, cbConnections, change,
                   handlerVars, fanVars, shVars, moreVars>>

\* change := ...; activeConnections += change; the two clamps.
SimUpdate ==
    /\ simPc = "cs"
    /\ \E c \in Changes :
         /\ change' = c
         /\ activeConnections' = SimStep(activeConnections, c)
    /\ simPc' = "unlock"
    /\ UNCHANGED <<activeConnectionsMutex, connections, cbPc, cbConnections,
                   handlerVars, fanVars, shVars, moreVars>>

SimUnlock ==
    /\ simPc = "unlock"
    /\ Unlock
    /\ simPc' = "log"
    /\ change' = 0
    /\ UNCHANGED <<activeConnections, connections, cbPc, cbConnections,
                   handlerVars, fanVars, shVars, moreVars>>

\* log.Printf(..., change, activeConnections): reads the counter after Unlock.
\* (The local `change` is only printed here, so the model drops it at Unlock.)
SimLog ==
    /\ simPc = "log"
    /\ simPc' = "sleep"
    /\ UNCHANGED <<activeConnections, activeConnectionsMutex, connections, cbPc,
                   cbConnections, change, handlerVars, fanVars, shVars, moreVars>>

ConnHandlerStep(p) ==
    \/ HandlerLock(p)
    \/ HandlerCritical(p)
    \/ HandlerRead(p)
    \/ HandlerUnlock(p)
    \/ Return(p)

CollectorStep == CollectRead \/ CollectUnlock

SimulatorStep == SimWake \/ SimUpdate \/ SimUnlock \/ SimLog

(***************************************************************************)
(* The connection counter and everything that touches it.                  *)
(***************************************************************************)
Next ==
    \/ \E p \in Handlers, r \in ConnRoutes : Request(p, r)
    \/ \E p \in Handlers : ConnHandlerStep(p)
    \/ CollectStart
    \/ CollectLock
    \/ CollectorStep
    \/ SimulatorStep
    \/ SimLock

Spec == Init /\ [][Next]_vars

(***************************************************************************)
(* Scheduling.  The Go scheduler runs every runnable goroutine, so each     *)
(* goroutine's steps are weakly fair; requests and collections are the      *)
(* environment's and may stop.  sync.Mutex hands the lock to a waiter that  *)
(* has waited for more than 1ms (starvation mode), so Lock is strongly      *)
(* fair.                                                                   *)
(***************************************************************************)
Fairness ==
    /\ \A p \in Handlers :
         /\ WF_vars(HandlerCritical(p) \/ HandlerRead(p) \/ HandlerUnlock(p) \/ Return(p))
         /\ SF_vars(HandlerLock(p))
    /\ WF_vars(CollectorStep)
    /\ SF_vars(CollectLock)
    /\ WF_vars(SimulatorStep)
    /\ SF_vars(SimLock)

FairSpec == Spec /\ Fairness

(***************************************************************************)
(* The fan-speed channel: its producer goroutine and getCPUFanSpeedHandler. *)
(***************************************************************************)
\* getCPUFanSpeed(): 1500 + rand.Intn(1000); the two ends of the range.
FanSpeeds == {FanSpeedBase, FanSpeedBase + FanSpeedSpread - 1}

\* The loop with idx <= 5.
ProducerLoopOneMore ==
    /\ prodPc = "loop"
    /\ IF idx <= ProducerIterations
       THEN /\ prodSpeed' \in FanSpeeds
            /\ prodPc' = "send"
            /\ UNCHANGED chanClosed
       ELSE /\ chanClosed' = TRUE
            /\ prodPc' = "exit"
            /\ UNCHANGED prodSpeed
    /\ UNCHANGED <<fanSpeedSubsciption, idx, received, connVars, handlerVars, shVars, moreVars>>

\* Head of the loop.  idx < 5: sleep, then fanSpeed := getCPUFanSpeed().
\* Otherwise the function returns and the deferred close runs.
ProducerLoop ==
    /\ prodPc = "loop"
    /\ IF idx < ProducerIterations
       THEN /\ prodSpeed' \in FanSpeeds
            /\ prodPc' = "send"
            /\ UNCHANGED chanClosed
       ELSE /\ chanClosed' = TRUE
            /\ prodPc' = "exit"
            /\ UNCHANGED prodSpeed
    /\ UNCHANGED <<fanSpeedSubsciption, idx, received, connVars, handlerVars, shVars, moreVars>>

\* A send that does not wait for room in the buffer.
ProducerSendNoWait ==
    /\ prodPc = "send"
    /\ fanSpeedSubsciption' = Append(fanSpeedSubsciption, prodSpeed)
    /\ idx' = idx + 1
    /\ prodSpeed' = 0
    /\ prodPc' = "loop"
    /\ UNCHANGED <<chanClosed, received, connVars, handlerVars, shVars, moreVars>>

\* fanSpeedSubsciption <- fanSpeed, which blocks while the buffer is full; idx++.
ProducerSend ==
    /\ prodPc = "send"
    /\ Len(fanSpeedSubsciption) < ChanCap
    /\ fanSpeedSubsciption' = Append(fanSpeedSubsciption, prodSpeed)
    /\ idx' = idx + 1
    /\ prodSpeed' = 0
    /\ prodPc' = "loop"
    /\ UNCHANGED <<chanClosed, received, connVars, handlerVars, shVars, moreVars>>

\* The receive without the default case: it waits for a value or for the close.
FanSelectBlocking(p) ==
    /\ pc[p] = "select"
    /\ Len(fanSpeedSubsciption) > 0 \/ chanClosed
    /\ IF Len(fanSpeedSubsciption) > 0
       THEN /\ fanSpeed' = [fanSpeed EXCEPT ![p] = Head(fanSpeedSubsciption)]
            /\ fanSpeedSubsciption' = Tail(fanSpeedSubsciption)
            /\ received' = received + 1
            /\ branch' = [branch EXCEPT ![p] = "received"]
       ELSE /\ \E v \in FanSpeeds : fanSpeed' = [fanSpeed EXCEPT ![p] = v]
            /\ branch' = [branch EXCEPT ![p] = "closed"]
            /\ UNCHANGED <<fanSpeedSubsciption, received>>
    /\ pc' = [pc EXCEPT ![p] = "write"]
    /\ UNCHANGED <<route, span, status, chanClosed, prodPc, idx, prodSpeed,
                   connVars, shVars, moreVars>>

\* The select of getCPUFanSpeedHandler: a receive with a default.
FanSelect(p) ==
    /\ pc[p] = "select"
    /\ IF Len(fanSpeedSubsciption) > 0
       THEN \* case speed, ok := <-fanSpeedSubsciption, ok
            /\ fanSpeed' = [fanSpeed EXCEPT ![p] = Head(fanSpeedSubsciption)]
            /\ fanSpeedSubsciption' = Tail(fanSpeedSubsciption)
            /\ received' = received + 1
            /\ branch' = [branch EXCEPT ![p] = "received"]
       ELSE \* the same case with !ok (closed and drained), or default (empty)
            /\ \E v \in FanSpeeds : fanSpeed' = [fanSpeed EXCEPT ![p] = v]
            /\ branch' = [branch EXCEPT ![p] = IF chanClosed THEN "closed" ELSE "empty"]
            /\ UNCHANGED <<fanSpeedSubsciption, received>>
    /\ pc' = [pc EXCEPT ![p] = "write"]
    /\ UNCHANGED <<route, span, status, chanClosed, prodPc, idx, prodSpeed,
                   connVars, shVars, moreVars>>

\* w.WriteHeader / w.Write of a handler that takes no lock.  getMemoryMetrics
\* reads currentMemoryUsage for the body, with no synchronisation.
WriteResponse(p) ==
    /\ pc[p] = "write"
    /\ status' = [status EXCEPT ![p] = StatusOf(RouteTable[route[p]])]
    /\ memBody' = [memBody EXCEPT ![p] = IF RouteTable[route[p]] = "getMemoryMetrics"
                                          THEN currentMemoryUsage ELSE memBody[p]]
    /\ pc' = [pc EXCEPT ![p] = "done"]
    /\ UNCHANGED <<route, span, fanSpeed, branch, connVars, fanVars, shVars,
                   currentMemoryUsage, memObserved, memCbPc,
                   mainVars, burstVars>>

FanHandlerStep(p) == FanSelect(p) \/ WriteResponse(p) \/ Return(p)

ProducerStep == ProducerLoop \/ ProducerSend

FanNext ==
    \/ \E p \in Handlers : Request(p, "/cpu/fanspeed")
    \/ \E p \in Handlers : FanHandlerStep(p)
    \/ ProducerStep

FanSpec == Init /\ [][FanNext]_vars

FanFairness ==
    /\ \A p \in Handlers : WF_vars(FanHandlerStep(p))
    /\ WF_vars(ProducerStep)

FanFairSpec == FanSpec /\ FanFairness

(***************************************************************************)
(* The memory.usage observable counter and getMemoryMetrics.               *)
(***************************************************************************)
\* float64(100*1024*1024) + float64(rand.Intn(400*1024*1024)): the two ends of
\* the range and its middle.
MemValues == {MemBase, MemBase + MemSpread \div 2, MemBase + MemSpread - 1}

\* The periodic reader starts a collection and calls the callback.
MemCollectStart ==
    /\ memCbPc = "idle"
    /\ memCbPc' = "set"
    /\ UNCHANGED <<currentMemoryUsage, memObserved, memBody,
                   connVars, handlerVars, fanVars, shVars, mainVars, burstVars>>

\* currentMemoryUsage = ...
MemSet ==
    /\ memCbPc = "set"
    /\ currentMemoryUsage' \in MemValues
    /\ memCbPc' = "observe"
    /\ UNCHANGED <<memObserved, memBody, connVars, handlerVars, fanVars, shVars,
                   mainVars, burstVars>>

\* o.Observe(currentMemoryUsage, ...), the log line, return nil
MemObserve ==
    /\ memCbPc = "observe"
    /\ memObserved' = currentMemoryUsage
    /\ memCbPc' = "idle"
    /\ UNCHANGED <<currentMemoryUsage, memBody, connVars, handlerVars, fanVars, shVars,
                   mainVars, burstVars>>

MemCallbackStep == MemSet \/ MemObserve

MemHandlerStep(p) == WriteResponse(p) \/ Return(p)

MemNext ==
    \/ \E p \in Handlers : Request(p, "/metrics/memory")
    \/ \E p \in Handlers : MemHandlerStep(p)
    \/ MemCollectStart
    \/ MemCallbackStep

MemSpec == Init /\ [][MemNext]_vars

(***************************************************************************)
(* main, from its first statement to http.ListenAndServe.                  *)
(***************************************************************************)
Endpoints == {"unset", "", "localhost:4317", "otel-tui:4317", "127.0.0.1:4317"}

\* os.Getenv: the empty string for a variable that is not set.
Getenv(e) == IF e = "unset" THEN "" ELSE e

\* The constructors without their check of the endpoint.
EndpointRequiredNever(endpoint) == FALSE

\* if endpoint == "" { return nil, fmt.Errorf("... is required") }
EndpointRequired(endpoint) == endpoint = ""

\* The results <<exporter, err>> of newOTelTUIExporter and of newOTelMetricExporter
\* with OTLP_ENDPOINT = e; the gRPC constructor can fail.
NewExporterResults(e) ==
    IF EndpointRequired(Getenv(e))
    THEN {<<"nil", "required">>}
    ELSE {<<"exporter", "nil">>, <<"nil", "failed">>}

\* main's statements in order.
MainOrder ==
    <<"newOTelTUIExporter", "newOTelMetricExporter", "newResource", "providers",
      "api.counter", "items.counter", "cpu.fan.speed", "goFanSpeed",
      "task.duration", "memory.usage", "active.connections", "goSimulator",
      "NewRouter", "HandleFunc", "ListenAndServe", "serving">>

After(s) == MainOrder[(CHOOSE i \in 1..Len(MainOrder) : MainOrder[i] = s) + 1]

\* The r.Get / r.Post calls in order.
RouteOrder ==
    <<"/healthz", "/", "/hello", "/users/{id}", "/error", "/items/add",
      "/items/remove", "/cpu/fanspeed", "/external-api", "/metrics/memory",
      "/metrics/connections", "/connection/open", "/connection/close">>

MainInit ==
    /\ PackageInit(0)
    /\ ShOff
    /\ start0 = 0
    /\ reported = [p \in Handlers |-> -1]
    /\ otlpEndpoint \in Endpoints
    /\ mainPc = "newOTelTUIExporter"
    /\ mainPhase = "call"
    /\ err = "nil"
    /\ exp = "nil"
    /\ metricExp = "nil"
    /\ instruments = {}
    /\ goroutines = {}
    /\ registered = {}
    /\ listening = FALSE

\* exp, err := newOTelTUIExporter(ctx)
MainNewExporter ==
    /\ mainPc = "newOTelTUIExporter" /\ mainPhase = "call"
    /\ \E r \in NewExporterResults(otlpEndpoint) : exp' = r[1] /\ err' = r[2]
    /\ mainPhase' = "check"
    /\ UNCHANGED <<otlpEndpoint, mainPc, metricExp, instruments, goroutines,
                   registered, listening>>
    /\ UNCHANGED <<connVars, handlerVars, fanVars, shVars, memVars, burstVars>>

\* metricExp, err := newOTelMetricExporter(ctx)
MainNewMetricExporter ==
    /\ mainPc = "newOTelMetricExporter" /\ mainPhase = "call"
    /\ \E r \in NewExporterResults(otlpEndpoint) : metricExp' = r[1] /\ err' = r[2]
    /\ mainPhase' = "check"
    /\ UNCHANGED <<otlpEndpoint, mainPc, exp, instruments, goroutines,
                   registered, listening>>
    /\ UNCHANGED <<connVars, handlerVars, fanVars, shVars, memVars, burstVars>>

\* res, err := newResource(): resource.Merge can fail.
MainNewResource ==
    /\ mainPc = "newResource" /\ mainPhase = "call"
    /\ err' \in {"nil", "failed"}
    /\ mainPhase' = "check"
    /\ UNCHANGED <<otlpEndpoint, mainPc, exp, metricExp, instruments, goroutines,
                   registered, listening>>
    /\ UNCHANGED <<connVars, handlerVars, fanVars, shVars, memVars, burstVars>>

\* if err != nil { log.Fatalf(...) } (panic(err) for the histogram)
MainCheckErr ==
    /\ mainPhase = "check"
    /\ mainPc' = IF err # "nil" THEN "fatal" ELSE After(mainPc)
    /\ mainPhase' = "call"
    /\ UNCHANGED <<otlpEndpoint, err, exp, metricExp, instruments, goroutines,
                   registered, listening>>
    /\ UNCHANGED <<connVars, handlerVars, fanVars, shVars, memVars, burstVars>>

\* newTracerProvider, newMeterProvider, the global setters, tracer and meter.
MainProviders ==
    /\ mainPc = "providers" /\ mainPhase = "call"
    /\ mainPc' = After(mainPc)
    /\ UNCHANGED <<otlpEndpoint, mainPhase, err, exp, metricExp, instruments,
                   goroutines, registered, listening>>
    /\ UNCHANGED <<connVars, handlerVars, fanVars, shVars, memVars, burstVars>>

\* requestCounter, err = meter.Int64Counter(...) and the five like it.
MainCreateInstrument ==
    /\ mainPc \in InstrumentNames /\ mainPhase = "call"
    /\ \/ err' = "nil" /\ instruments' = instruments \cup {mainPc}
       \/ err' = "failed" /\ instruments' = instruments
    /\ mainPhase' = "check"
    /\ UNCHANGED <<otlpEndpoint, mainPc, exp, metricExp, goroutines,
                   registered, listening>>
    /\ UNCHANGED <<connVars, handlerVars, fanVars, shVars, memVars, burstVars>>

\* go func() { ... }() of the fan speed producer and of the simulator.
MainGo ==
    /\ mainPc \in {"goFanSpeed", "goSimulator"} /\ mainPhase = "call"
    /\ goroutines' = goroutines \cup {mainPc}
    /\ mainPc' = After(mainPc)
    /\ UNCHANGED <<otlpEndpoint, mainPhase, err, exp, metricExp, instruments,
                   registered, listening>>
    /\ UNCHANGED <<connVars, handlerVars, fanVars, shVars, memVars, burstVars>>

\* r := chi.NewRouter(); r.Use(...)
MainNewRouter ==
    /\ mainPc = "NewRouter" /\ mainPhase = "call"
    /\ mainPc' = After(mainPc)
    /\ UNCHANGED <<otlpEndpoint, mainPhase, err, exp, metricExp, instruments,
                   goroutines, registered, listening>>
    /\ UNCHANGED <<connVars, handlerVars, fanVars, shVars, memVars, burstVars>>

\* The next r.Get or r.Post.
MainHandleFunc ==
    /\ mainPc = "HandleFunc" /\ mainPhase = "call"
    /\ registered' = registered \cup {RouteOrder[Cardinality(registered) + 1]}
    /\ mainPc' = IF Cardinality(registered) + 1 = Len(RouteOrder)
                 THEN After(mainPc) ELSE mainPc
    /\ UNCHANGED <<otlpEndpoint, mainPhase, err, exp, metricExp, instruments,
                   goroutines, listening>>
    /\ UNCHANGED <<connVars, handlerVars, fanVars, shVars, memVars, burstVars>>

\* log.Fatal(http.ListenAndServe(":8080", r)): it serves, or fails to bind.
MainListen ==
    /\ mainPc = "ListenAndServe" /\ mainPhase = "call"
    /\ \/ listening' = TRUE /\ mainPc' = After(mainPc)
       \/ listening' = FALSE /\ mainPc' = "fatal"
    /\ UNCHANGED <<otlpEndpoint, mainPhase, err, exp, metricExp, instruments,
                   goroutines, registered>>
    /\ UNCHANGED <<connVars, handlerVars, fanVars, shVars, memVars, burstVars>>

MainNext ==
    \/ MainNewExporter
    \/ MainNewMetricExporter
    \/ MainNewResource
    \/ MainCheckErr
    \/ MainProviders
    \/ MainCreateInstrument
    \/ MainGo
    \/ MainNewRouter
    \/ MainHandleFunc
    \/ MainListen

MainSpec == MainInit /\ [][MainNext]_vars

\* main is a goroutine of its own and runs its statements one after another.
MainFairSpec == MainSpec /\ WF_vars(MainNext)

(***************************************************************************)
(* A burst of calls of simulateConnect, with no other writer of the        *)
(* counter.                                                                *)
(***************************************************************************)
BurstInit ==
    /\ \E n \in 0..(MaxConnections - NumHandlers) : AppInitAt(n)
    /\ ShOff

BurstStep(p) ==
    \/ HandlerLock(p)
    \/ HandlerCritical(p)
    \/ HandlerRead(p)
    \/ HandlerUnlockObserved(p)

BurstNext ==
    \/ \E p \in Handlers : Request(p, "/connection/open")
    \/ \E p \in Handlers : BurstStep(p)

BurstSpec == BurstInit /\ [][BurstNext]_vars

(***************************************************************************)
(* Every route, served by the handler goroutines alone.                    *)
(***************************************************************************)
RouteNext ==
    \/ \E p \in Handlers, r \in Routes : Request(p, r)
    \/ \E p \in Handlers : ConnHandlerStep(p)
    \/ \E p \in Handlers : FanSelect(p) \/ WriteResponse(p)

RouteSpec == Init /\ [][RouteNext]_vars

(***************************************************************************)
(* The entrypoint script of the nginx container.                           *)
(***************************************************************************)
DefaultEndpoint == "host.docker.internal:4317"

EndpointRef == "${OTEL_EXPORTER_ENDPOINT}"

\* What the container may be started with: the variable unset, empty, or set.
EnvValues == {"unset", "", "otel-collector:4317"}

\* Tokens of the template: plain text, a reference to the endpoint, and an
\* nginx variable, which envsubst must leave alone.
TemplateTokens == {"text", EndpointRef, "$host"}

RECURSIVE SeqsUpTo(_)
SeqsUpTo(n) ==
    IF n = 0 THEN {<<>>}
    ELSE LET shorter == SeqsUpTo(n - 1)
         IN  shorter \cup {Append(t, x) : t \in shorter, x \in TemplateTokens}

Templates == SeqsUpTo(MaxTemplateLen)

\* set -e
ErrExit == TRUE

\* ${OTEL_EXPORTER_ENDPOINT="..."} without the colon: an empty value is kept.
DefaultAssignUnsetOnly(v) == IF v = "unset" THEN DefaultEndpoint ELSE v

\* : ${OTEL_EXPORTER_ENDPOINT:="host.docker.internal:4317"}
DefaultAssign(v) == IF v = "unset" \/ v = "" THEN DefaultEndpoint ELSE v

\* envsubst '${OTEL_EXPORTER_ENDPOINT}': replaces the references to that
\* variable and nothing else.
Envsubst(t, v) == [i \in 1..Len(t) |-> IF t[i] = EndpointRef THEN v ELSE t[i]]

EntrypointInit ==
    /\ AppInit
    /\ shPc = "default"
    /\ env0 \in EnvValues
    /\ env = env0
    /\ template \in Templates
    /\ conf = <<>>

ShDefault ==
    /\ shPc = "default"
    /\ env' = DefaultAssign(env)
    /\ shPc' = "echo"
    /\ UNCHANGED <<env0, template, conf, connVars, handlerVars, fanVars, moreVars>>

ShEcho ==
    /\ shPc = "echo"
    /\ shPc' = "envsubst"
    /\ UNCHANGED <<env, env0, template, conf, connVars, handlerVars, fanVars, moreVars>>

\* envsubst <template >conf.  It can fail (the template cannot be read, the
\* config cannot be written); the redirection may have truncated the config.
ShEnvsubst ==
    /\ shPc = "envsubst"
    /\ \E ok \in BOOLEAN :
         IF ok
         THEN /\ conf' = Envsubst(template, env)
              /\ shPc' = "exec"
         ELSE /\ conf' = <<>>
              /\ shPc' = IF ErrExit THEN "aborted" ELSE "exec"
    /\ UNCHANGED <<env, env0, template, connVars, handlerVars, fanVars, moreVars>>

\* exec nginx -g 'daemon off;'
ShExec ==
    /\ shPc = "exec"
    /\ shPc' = "nginx"
    /\ UNCHANGED <<env, env0, template, conf, connVars, handlerVars, fanVars, moreVars>>

EntrypointNext == ShDefault \/ ShEcho \/ ShEnvsubst \/ ShExec

EntrypointSpec == EntrypointInit /\ [][EntrypointNext]_vars

(***************************************************************************)
(* Properties.                                                             *)
(***************************************************************************)
\* Goroutines between a Lock and the matching Unlock.
HandlersInside == {p \in Handlers : pc[p] \in {"cs", "read", "unlock"}}

Inside ==
    Cardinality(HandlersInside)
      + (IF cbPc \in {"cs", "unlock"} THEN 1 ELSE 0)
      + (IF simPc \in {"cs", "unlock"} THEN 1 ELSE 0)

\* The handler functions whose critical section writes the counter.
WritingHandlers == {"simulateConnect", "simulateDisconnect"}

\* C1: in every reachable state 0 <= activeConnections <= 100.
C1_CounterInRange == activeConnections \in 0..MaxActive

\* C2: every write to activeConnections is made by a goroutine that is between
\* Lock and Unlock; at most one goroutine is there at a time, the mutex is
\* locked exactly while one is, a goroutine there is never blocked, and it
\* leaves only by unlocking.
C2_WritesUnderMutex ==
    /\ [](Inside <= 1)
    /\ [](activeConnectionsMutex <=> Inside = 1)
    /\ [](\A p \in Handlers :
            /\ pc[p] = "cs" => ENABLED HandlerCritical(p)
            /\ pc[p] = "read" => ENABLED HandlerRead(p)
            /\ pc[p] = "unlock" => ENABLED HandlerUnlock(p))
    /\ [](simPc = "cs" => ENABLED SimUpdate)
    /\ [](simPc = "unlock" => ENABLED SimUnlock)
    /\ [][activeConnections' # activeConnections =>
            /\ activeConnectionsMutex /\ activeConnectionsMutex'
            /\ \/ simPc = "cs" /\ simPc' = "unlock"
               \/ \E p \in Handlers :
                    /\ pc[p] = "cs" /\ pc'[p] = "read"
                    /\ RouteTable[route[p]] \in WritingHandlers]_vars
    /\ [][Inside' < Inside => ~activeConnectionsMutex']_vars

C2_Witness ==
    /\ simPc = "unlock"
    /\ activeConnections > 0
    /\ \E p \in Handlers : pc[p] = "lock" /\ route[p] = "/connection/open"
    /\ \E p \in Handlers : pc[p] = "lock" /\ route[p] = "/connection/close"

\* C3: no goroutine reads activeConnections while another goroutine is in a
\* critical section that writes it.  The simulator reads it at its log line.
C3_NoReadDuringWrite ==
    simPc = "log" =>
        \A p \in Handlers : ~(pc[p] = "cs" /\ RouteTable[route[p]] \in WritingHandlers)

\* C4: the producer completes at most five sends, closes the channel only
\* after the fifth, sends nothing after the close, and the channel never
\* buffers more than one value.
C4_FiveSends ==
    /\ [](idx <= 5)
    /\ [](Len(fanSpeedSubsciption) <= 1)
    /\ [](chanClosed => idx = 5 /\ prodPc = "exit")
    /\ [][chanClosed => /\ chanClosed'
                        /\ idx' = idx
                        /\ Len(fanSpeedSubsciption') <= Len(fanSpeedSubsciption)]_vars
    /\ [][~chanClosed /\ chanClosed' => idx = 5]_vars

C4_Witness ==
    /\ chanClosed
    /\ idx = ProducerIterations
    /\ Len(fanSpeedSubsciption) = 1

\* The handler functions without a call of tracer.Start.
Untraced == {"getHealtz", "getRoot", "getUserByID"}

\* C5, as claimed: a handler that has written its response has started a span.
C5_EveryHandlerTraced ==
    \A p \in Handlers : status[p] # 0 => span[p]

\* C5, amended: a handler that has written its response has started a span,
\* unless it is getHealtz, getRoot or getUserByID, which start none.
C5_TracedExceptThree ==
    \A p \in Handlers :
        status[p] # 0 => (span[p] <=> RouteTable[route[p]] \notin Untraced)

C5_Witness ==
    /\ \E p \in Handlers : status[p] = StatusOK /\ route[p] = "/hello" /\ span[p]
    /\ \E p \in Handlers : status[p] = StatusOK /\ route[p] = "/healthz" /\ ~span[p]

\* C6: the simulator never leaves its loop, updates the counter infinitely
\* often, and a locked mutex is always unlocked again.
C6_SimulatorLive ==
    /\ [](simPc \in {"sleep", "lock", "cs", "unlock", "log"})
    /\ []<><<SimUpdate>>_vars
    /\ []<>(~activeConnectionsMutex)

C6_Witness ==
    /\ simPc = "lock"
    /\ activeConnectionsMutex
    /\ \E p \in Handlers : pc[p] = "unlock" /\ route[p] = "/connection/close"
    /\ \E p \in Handlers : pc[p] = "lock"
    /\ cbPc = "lock"

\* The endpoint the script is to substitute, from the environment it was
\* started with.
ExpectedEndpoint == IF env0 = "unset" \/ env0 = "" THEN DefaultEndpoint ELSE env0

C8_SelectNeverBlocks ==
    /\ [](\A p \in Handlers : pc[p] = "select" => ENABLED FanSelect(p))
    /\ [][\A p \in Handlers :
            pc[p] = "select" /\ pc'[p] # "select" =>
                IF Len(fanSpeedSubsciption) > 0
                THEN /\ fanSpeed'[p] = Head(fanSpeedSubsciption)
                     /\ branch'[p] = "received"
                ELSE /\ fanSpeed'[p] \in FanSpeedBase..(FanSpeedBase + FanSpeedSpread - 1)
                     /\ branch'[p] = (IF chanClosed THEN "closed" ELSE "empty")
                     /\ fanSpeedSubsciption' = fanSpeedSubsciption]_vars
    /\ [][\A p \in Handlers :
            pc[p] = "write" /\ pc'[p] = "done" =>
                status'[p] = StatusOK /\ fanSpeed'[p] = fanSpeed[p]]_vars
    /\ \A p \in Handlers : (pc[p] = "select" ~> (pc[p] = "done" /\ status[p] = StatusOK))

C8_Witness ==
    /\ \E p \in Handlers : pc[p] = "done" /\ branch[p] = "closed" /\ status[p] = StatusOK
    /\ \E p \in Handlers : pc[p] = "done" /\ branch[p] = "received" /\ status[p] = StatusOK

\* C9: the channel is closed only if handlers received at least four values,
\* the producer never completes more than one send beyond the receives, and
\* once four values were received the producer completes and closes.
C9_CloseNeedsFourReceives ==
    /\ [](chanClosed => received >= 4)
    /\ [](idx <= received + 1)
    /\ [](received < 4 => prodPc # "exit")
    /\ (received >= 4 ~> chanClosed)

C9_Witness ==
    /\ chanClosed
    /\ received = 4

\* C10: a step of the simulator replaces activeConnections by
\* min(100, max(0, old + change)) for a change in -5..10, so right after the
\* step the value is in 0..100 whatever it was before.
C10_SimStepClamped ==
    /\ [](simPc = "unlock" => activeConnections \in 0..100)
    /\ [][simPc = "cs" /\ simPc' = "unlock" =>
            /\ change' \in -5..10
            /\ activeConnections' = Min(100, Max(0, activeConnections + change'))
            /\ activeConnectionsMutex /\ activeConnectionsMutex']_vars

\* The step started above 100: it subtracted and did not clamp.
C10_Witness ==
    /\ simPc = "unlock"
    /\ change < 0
    /\ activeConnections < MaxActive
    /\ activeConnections - change > MaxActive

\* C11: simulateDisconnect takes exactly one off a positive counter and leaves
\* a counter of 0 alone; the value it reports is the counter right after that
\* step, read before the mutex is released, and is never negative.
C11_DisconnectStep ==
    /\ [][\A p \in Handlers :
            pc[p] = "cs" /\ route[p] = "/connection/close" /\ pc'[p] # "cs" =>
                /\ activeConnections >= 1 => activeConnections' = activeConnections - 1
                /\ activeConnections = 0 => activeConnections' = 0]_vars
    /\ [][\A p \in Handlers :
            pc[p] = "read" /\ route[p] = "/connection/close" /\ pc'[p] # "read" =>
                /\ connections'[p] = activeConnections
                /\ activeConnectionsMutex /\ activeConnectionsMutex']_vars
    /\ [](\A p \in Handlers :
            pc[p] = "unlock" /\ route[p] = "/connection/close" =>
                /\ connections[p] = activeConnections
                /\ connections[p] >= 0)
    /\ [][\A p \in Handlers :
            pc[p] = "unlock" /\ route[p] = "/connection/close" /\ pc'[p] # "unlock" =>
                status'[p] = 200]_vars

\* A disconnect about to report 0 after another disconnect has completed.
C11_Witness ==
    \E p \in Handlers :
        /\ pc[p] = "unlock"
        /\ route[p] = "/connection/close"
        /\ connections[p] = 0
        /\ activeConnections = 0
        /\ \E q \in Handlers : pc[q] = "done" /\ route[q] = "/connection/close"

\* C12: across the collections the value of currentMemoryUsage, and the value
\* observed for memory.usage, never decreases.
C12_MemoryNeverDecreases ==
    [][/\ currentMemoryUsage' >= currentMemoryUsage
       /\ memObserved' >= memObserved]_vars

\* C13: the current_memory_bytes of a response of GET /metrics/memory is the
\* value the memory.usage callback observed last, and lies in [100 MiB, 500 MiB).
C13_ReturnsLastObserved ==
    [][\A p \in Handlers :
         pc[p] = "write" /\ route[p] = "/metrics/memory" /\ pc'[p] = "done" =>
             /\ memBody'[p] = memObserved
             /\ memBody'[p] >= 100 * 1024 * 1024
             /\ memBody'[p] < 500 * 1024 * 1024]_vars

Responded == {p \in Handlers : reported[p] # -1}

\* C15: a call of simulateConnect adds one to the counter it finds in its
\* critical section, nobody else changes the counter until the call has read it
\* back and unlocked, and the call reports that value; the calls of a burst
\* from start0 report distinct values, and once all N of them have responded the
\* values are start0+1..start0+N and the counter is start0+N.
C15_NoLostUpdate ==
    /\ [][\A p \in Handlers :
            /\ pc[p] = "cs" /\ pc'[p] = "read" =>
                  activeConnections' = activeConnections + 1
            /\ pc[p] = "read" /\ pc'[p] = "unlock" =>
                  connections'[p] = activeConnections
            /\ pc[p] \in {"cs", "read", "unlock"} /\ pc'[p] = pc[p] =>
                  activeConnections' = activeConnections
            /\ pc[p] = "unlock" /\ pc'[p] = "done" =>
                  reported'[p] = connections[p]]_vars
    /\ [](/\ \A p \in Responded :
                 reported[p] \in (start0 + 1)..(start0 + NumHandlers)
          /\ \A p, q \in Responded : p # q => reported[p] # reported[q]
          /\ (\A p \in Handlers : pc[p] \in {"idle", "done"}) =>
                 /\ {reported[p] : p \in Responded} =
                        (start0 + 1)..(start0 + Cardinality(Responded))
                 /\ activeConnections = start0 + Cardinality(Responded))

\* Every handler of the burst has responded, from a start above 0.
C15_Witness ==
    /\ start0 > 0
    /\ Responded = Handlers
    /\ activeConnections = start0 + NumHandlers

TypeOK ==
    /\ activeConnections \in 0..MaxConnections
    /\ activeConnectionsMutex \in BOOLEAN
    /\ idx \in 0..ProducerIterations
    /\ received \in 0..ProducerIterations

====
